---- MODULE Spec2Model ----
(***************************************************************************)
(* Model of src/repo.rs: the Repository handle of the git2 binding, the    *)
(* native engine it calls, and the Object / Revspec values it hands out.   *)
(*                                                                         *)
(* Every thread runs calls of the Repository API.  A call that goes        *)
(* through the error translator is split where the code is split: the      *)
(* one-time initialisation, the native call, and the translation of the    *)
(* native status (which reads the engine's last-error slot of the thread). *)
(***************************************************************************)
EXTENDS Integers, FiniteSets, Sequences, TLC

\* ---------------------------------------------------------------- bounds
\* Native repositories and native objects the engine hands out, and API calls
\* the threads begin, in one run.
MaxRepos == 2
MaxObjs == 2
MaxCalls == 3

\* Two threads, each with its own handles, and one path.
Threads == {1, 2}
Dirs == {1}

\* ------------------------------------------------- native engine constants
\* The negative status codes the engine reports (GIT_ERROR, GIT_ENOTFOUND).
NegCodes == {-1, -3}

\* raw::GIT_REPOSITORY_STATE_*, in the order of the check! table.
GIT_REPOSITORY_STATE_NONE == 0
GIT_REPOSITORY_STATE_MERGE == 1
GIT_REPOSITORY_STATE_REVERT == 2
GIT_REPOSITORY_STATE_CHERRYPICK == 3
GIT_REPOSITORY_STATE_BISECT == 4
GIT_REPOSITORY_STATE_REBASE == 5
GIT_REPOSITORY_STATE_REBASE_INTERACTIVE == 6
GIT_REPOSITORY_STATE_REBASE_MERGE == 7
GIT_REPOSITORY_STATE_APPLY_MAILBOX == 8
GIT_REPOSITORY_STATE_APPLY_MAILBOX_OR_REBASE == 9

\* What git_repository_state may hand back: the ten known integers and, under
\* a version skew, one below and one above them.
NativeStates == (GIT_REPOSITORY_STATE_NONE - 1)..(GIT_REPOSITORY_STATE_APPLY_MAILBOX_OR_REBASE + 1)

\* The revision strings a caller passes: sequences of characters, "NUL" being
\* an interior zero byte.
SpecStrings == { <<"H">>, <<"A", ".", ".", "B">>, <<"H", "NUL", "x">> }

\* The mode flag sets git_revparse writes.
RevparseFlags == { {}, {"SINGLE"}, {"RANGE"}, {"RANGE", "MERGE_BASE"} }

VARIABLES
  once,        \* the Once of init(): "new", "running", "done"
  setupRuns,   \* how often the native global setup has run
  fs,          \* the directories: [exists, dotgit, bare]
  repoInfo,    \* native repositories ever allocated, by pointer 1..Len
  repoFrees,   \* git_repository_free calls per pointer (0 is the null pointer)
  objInfo,     \* native objects ever allocated, by pointer 1..Len
  objFrees,    \* git_object_free calls per pointer (0 is the null pointer)
  errSlot,     \* the engine's last-error slot of each thread
  repos,       \* live Repository values: [raw, thr]
  objects,     \* live Object values held directly: [raw, borrow, thr]
  revspecs,    \* live Revspec values: [from, to, thr]
  pc,          \* each thread's position
  cur,         \* each thread's call in progress
  calls,       \* API calls begun so far
  result       \* the call completed last, and what it gave its caller

vars == <<once, setupRuns, fs, repoInfo, repoFrees, objInfo, objFrees, errSlot,
          repos, objects, revspecs, pc, cur, calls, result>>

\* ------------------------------------------------------------ value shapes
NoErr == [op |-> "none", code |-> 0]
NoObject == [raw |-> 0, borrow |-> 0]
NoCall == [op |-> "none", self |-> 0, dir |-> 0, bare |-> FALSE, code |-> 0,
           out1 |-> 0, out2 |-> 0, flags |-> {}]
NoResult == [thr |-> 0, op |-> "none", kind |-> "None", called |-> FALSE, native |-> 0,
             err |-> NoErr, self |-> 0, repo |-> 0, obj |-> NoObject,
             hasRev |-> FALSE, from |-> NoObject, to |-> NoObject,
             nfrom |-> 0, nto |-> 0, flags |-> {}, flag |-> FALSE,
             variant |-> "none"]

\* Result<_, Error> as the caller sees it, and a task failure.
Returned(t, r) == result' = [r EXCEPT !.thr = t]
BaseResult(t) == [NoResult EXCEPT !.op = cur[t].op, !.called = TRUE,
                                  !.native = cur[t].code, !.self = cur[t].self,
                                  !.nfrom = cur[t].out1, !.nto = cur[t].out2,
                                  !.flags = cur[t].flags]

\* ----------------------------------------------------- the error translator
\* doit(f): Ok(n) for n >= 0, Err(Error::last_error()) for n < 0.
doit(code, slot) ==
  IF code < 0 THEN [ok |-> FALSE, n |-> code, err |-> slot]
              ELSE [ok |-> TRUE, n |-> code, err |-> NoErr]

\* The engine records the failure of a call in the calling thread's slot; a
\* successful call leaves the slot as it was.
SetError(t, op, code) ==
  errSlot' = IF code < 0 THEN [errSlot EXCEPT ![t] = [op |-> op, code |-> code]]
                         ELSE errSlot

\* ------------------------------------------------------------ the handles
\* Object::from_raw(repo, raw): the Object borrows the Repository.
ObjectFromRaw(self, raw) == [raw |-> raw, borrow |-> self]

\* Revspec::from_objects(from, to)
RevspecFromObjects(from, to) == [from |-> from, to |-> to]

\* The Objects alive, held directly or as the leg of a Revspec.
HeldObjects ==
  { [raw |-> o.raw, borrow |-> o.borrow] : o \in objects }
  \cup { r.from : r \in { x \in revspecs : x.from # NoObject } }
  \cup { r.to : r \in { x \in revspecs : x.to # NoObject } }

\* The borrow checker: a Repository cannot be moved or dropped while an Object
\* borrowed from it is alive.
Borrowed(raw) == \E o \in HeldObjects : o.borrow = raw

\* Calls of open / init on their way to the native call.
OpeningThreads == { t \in Threads : pc[t] \in {"setup", "native"} }

Init ==
  /\ once = "new"
  /\ setupRuns = 0
  /\ fs \in [Dirs -> { [exists |-> FALSE, dotgit |-> FALSE, bare |-> FALSE],
                       [exists |-> TRUE, dotgit |-> FALSE, bare |-> FALSE],
                       [exists |-> TRUE, dotgit |-> TRUE, bare |-> FALSE],
                       [exists |-> TRUE, dotgit |-> FALSE, bare |-> TRUE] }]
  /\ repoInfo = <<>>
  /\ repoFrees = [p \in 0..MaxRepos |-> 0]
  /\ objInfo = <<>>
  /\ objFrees = [p \in 0..MaxObjs |-> 0]
  /\ errSlot = [t \in Threads |-> NoErr]
  /\ repos = {}
  /\ objects = {}
  /\ revspecs = {}
  /\ pc = [t \in Threads |-> "idle"]
  /\ cur = [t \in Threads |-> NoCall]
  /\ calls = 0
  /\ result = NoResult

\* A thread between calls begins one.
Begin(t) ==
  /\ pc[t] = "idle"
  /\ calls < MaxCalls
  /\ calls' = calls + 1

\* --------------------------------------------------- init(): the Once guard
\* The first caller runs the setup; a caller that finds it running waits; a
\* caller that finds it done goes on.
OnceEnter(t) ==
  /\ once # "running"
  /\ once' = IF once = "new" THEN "running" ELSE once
  /\ pc' = [pc EXCEPT ![t] = IF once = "new" THEN "setup" ELSE "native"]

\* The native global setup, run inside the Once.
Setup(t) ==
  /\ pc[t] = "setup"
  /\ setupRuns' = setupRuns + 1
  /\ once' = "done"
  /\ pc' = [pc EXCEPT ![t] = "native"]
  /\ UNCHANGED <<calls, fs, repoInfo, repoFrees, objInfo, objFrees, errSlot, repos,
                 objects, revspecs, cur, result>>

\* ------------------------------------------------------- Repository::open
\* Open without the call of init().
OpenNoInit(t, d) ==
  /\ Begin(t)
  /\ Len(repoInfo) + Cardinality(OpeningThreads) < MaxRepos
  /\ pc' = [pc EXCEPT ![t] = "native"]
  /\ cur' = [cur EXCEPT ![t] = [NoCall EXCEPT !.op = "open", !.dir = d]]
  /\ UNCHANGED <<once, setupRuns, fs, repoInfo, repoFrees, objInfo, objFrees,
                 errSlot, repos, objects, revspecs, result>>

\* init(); let s = path.to_c_str(); let mut ret = null;
Open(t, d) ==
  /\ Begin(t)
  /\ Len(repoInfo) + Cardinality(OpeningThreads) < MaxRepos
  /\ OnceEnter(t)
  /\ cur' = [cur EXCEPT ![t] = [NoCall EXCEPT !.op = "open", !.dir = d]]
  /\ UNCHANGED <<setupRuns, fs, repoInfo, repoFrees, objInfo, objFrees, errSlot,
                 repos, objects, revspecs, result>>

\* git_repository_open(&ret, path): the repository in path/.git if there is
\* one, else the bare repository in path, else GIT_ENOTFOUND.
OpenNative(t) ==
  /\ pc[t] = "native"
  /\ cur[t].op = "open"
  /\ LET d == cur[t].dir
         found == fs[d].exists /\ (fs[d].dotgit \/ fs[d].bare)
         code == IF found THEN 0 ELSE -3
         ptr == Len(repoInfo) + 1
     IN /\ repoInfo' = IF found
                       THEN Append(repoInfo, [dir |-> d, bare |-> ~fs[d].dotgit,
                                              origin |-> "open", bareArg |-> FALSE,
                                              fsAt |-> fs[d]])
                       ELSE repoInfo
        /\ cur' = [cur EXCEPT ![t].code = code, ![t].out1 = IF found THEN ptr ELSE 0]
        /\ SetError(t, "open", code)
  /\ pc' = [pc EXCEPT ![t] = "ret"]
  /\ UNCHANGED <<calls, once, setupRuns, fs, repoFrees, objInfo, objFrees, repos,
                 objects, revspecs, result>>

\* OpenReturn without the try!: the status is dropped and ret is wrapped.
OpenReturnUnchecked(t) ==
  /\ pc[t] = "ret"
  /\ cur[t].op = "open"
  /\ repos' = repos \cup { [raw |-> cur[t].out1, thr |-> t] }
  /\ Returned(t, [BaseResult(t) EXCEPT !.kind = "Ok", !.repo = cur[t].out1])
  /\ pc' = [pc EXCEPT ![t] = "idle"]
  /\ cur' = [cur EXCEPT ![t] = NoCall]
  /\ UNCHANGED <<calls, once, setupRuns, fs, repoInfo, repoFrees, objInfo, objFrees,
                 errSlot, objects, revspecs>>

\* try!(doit(..)); Ok(Repository { raw: ret, .. })
OpenReturn(t) ==
  /\ pc[t] = "ret"
  /\ cur[t].op = "open"
  /\ LET r == doit(cur[t].code, errSlot[t])
     IN IF r.ok
        THEN /\ repos' = repos \cup { [raw |-> cur[t].out1, thr |-> t] }
             /\ Returned(t, [BaseResult(t) EXCEPT !.kind = "Ok", !.repo = cur[t].out1])
        ELSE /\ repos' = repos
             /\ Returned(t, [BaseResult(t) EXCEPT !.kind = "Err", !.err = r.err])
  /\ pc' = [pc EXCEPT ![t] = "idle"]
  /\ cur' = [cur EXCEPT ![t] = NoCall]
  /\ UNCHANGED <<calls, once, setupRuns, fs, repoInfo, repoFrees, objInfo, objFrees,
                 errSlot, objects, revspecs>>

\* ------------------------------------------------------- Repository::init
\* The flag dropped: every repository is laid out as a standard one.
BareAsCUintZero(bare) == 0

\* bare as c_uint
BareAsCUint(bare) == IF bare THEN 1 ELSE 0

\* init(); let s = path.to_c_str(); let mut ret = null;
RepoInit(t, d, bare) ==
  /\ Begin(t)
  /\ Len(repoInfo) + Cardinality(OpeningThreads) < MaxRepos
  /\ OnceEnter(t)
  /\ cur' = [cur EXCEPT ![t] = [NoCall EXCEPT !.op = "init", !.dir = d, !.bare = bare]]
  /\ UNCHANGED <<setupRuns, fs, repoInfo, repoFrees, objInfo, objFrees, errSlot,
                 repos, objects, revspecs, result>>

\* git_repository_init(&ret, path, is_bare): the folder must exist; a bare
\* repository is laid out in path itself, a standard one in path/.git, next to
\* whatever path already holds.
InitNative(t) ==
  /\ pc[t] = "native"
  /\ cur[t].op = "init"
  /\ LET d == cur[t].dir
         isBare == BareAsCUint(cur[t].bare) # 0
         code == IF fs[d].exists THEN 0 ELSE -1
         ptr == Len(repoInfo) + 1
         after == IF isBare THEN [fs[d] EXCEPT !.bare = TRUE]
                            ELSE [fs[d] EXCEPT !.dotgit = TRUE]
     IN /\ fs' = IF code = 0 THEN [fs EXCEPT ![d] = after] ELSE fs
        /\ repoInfo' = IF code = 0
                       THEN Append(repoInfo, [dir |-> d, bare |-> isBare,
                                              origin |-> "init", bareArg |-> cur[t].bare,
                                              fsAt |-> after])
                       ELSE repoInfo
        /\ cur' = [cur EXCEPT ![t].code = code, ![t].out1 = IF code = 0 THEN ptr ELSE 0]
        /\ SetError(t, "init", code)
  /\ pc' = [pc EXCEPT ![t] = "ret"]
  /\ UNCHANGED <<calls, once, setupRuns, repoFrees, objInfo, objFrees, repos, objects,
                 revspecs, result>>

\* try!(doit(..)); Ok(Repository { raw: ret, .. })
InitReturn(t) ==
  /\ pc[t] = "ret"
  /\ cur[t].op = "init"
  /\ LET r == doit(cur[t].code, errSlot[t])
     IN IF r.ok
        THEN /\ repos' = repos \cup { [raw |-> cur[t].out1, thr |-> t] }
             /\ Returned(t, [BaseResult(t) EXCEPT !.kind = "Ok", !.repo = cur[t].out1])
        ELSE /\ repos' = repos
             /\ Returned(t, [BaseResult(t) EXCEPT !.kind = "Err", !.err = r.err])
  /\ pc' = [pc EXCEPT ![t] = "idle"]
  /\ cur' = [cur EXCEPT ![t] = NoCall]
  /\ UNCHANGED <<calls, once, setupRuns, fs, repoInfo, repoFrees, objInfo, objFrees,
                 errSlot, objects, revspecs>>

\* ---------------------------------------------------- Repository::revparse
\* to_c_str() fails the task on an interior zero byte.
HasNul(s) == \E i \in 1..Len(s) : s[i] = "NUL"

\* A failed task: the call is abandoned and the task unwinds.
Panic(t, r) ==
  /\ pc' = [pc EXCEPT ![t] = "failed"]
  /\ cur' = [cur EXCEPT ![t] = NoCall]
  /\ Returned(t, [r EXCEPT !.kind = "Panic"])

\* let s = spec.to_c_str(); git_revparse(&mut spec, self.raw, s): on success
\* the engine writes the flags, a new object in from and, for a range (or
\* against its contract) a new object in to.
Revparse(t, h, s) ==
  /\ Begin(t)
  /\ h \in repos
  /\ h.thr = t
  /\ \/ /\ HasNul(s)
        /\ Panic(t, [NoResult EXCEPT !.op = "revparse", !.self = h.raw])
        /\ UNCHANGED <<objInfo, errSlot>>
     \/ /\ ~HasNul(s)
        /\ \E code \in NegCodes \cup {0}, flags \in RevparseFlags, toSet \in BOOLEAN :
             /\ code < 0 => flags = {} /\ ~toSet
             /\ "RANGE" \in flags => toSet
             /\ Len(objInfo) + (IF code < 0 THEN 0 ELSE IF toSet THEN 2 ELSE 1) <= MaxObjs
             /\ LET p1 == Len(objInfo) + 1
                    p2 == Len(objInfo) + 2
                    o == [repo |-> h.raw]
                IN /\ objInfo' = IF code < 0 THEN objInfo
                                 ELSE IF toSet THEN objInfo \o <<o, o>>
                                 ELSE Append(objInfo, o)
                   /\ cur' = [cur EXCEPT ![t] =
                                [NoCall EXCEPT !.op = "revparse", !.self = h.raw,
                                               !.code = code, !.flags = flags,
                                               !.out1 = IF code < 0 THEN 0 ELSE p1,
                                               !.out2 = IF code >= 0 /\ toSet THEN p2 ELSE 0]]
                   /\ SetError(t, "revparse", code)
        /\ pc' = [pc EXCEPT ![t] = "ret"]
        /\ UNCHANGED result
  /\ UNCHANGED <<once, setupRuns, fs, repoInfo, repoFrees, objFrees, repos,
                 objects, revspecs>>

\* RevparseReturn without the assert!: a set second slot is let through.
RevparseReturnNoAssert(t) ==
  /\ pc[t] = "ret"
  /\ cur[t].op = "revparse"
  /\ LET r == doit(cur[t].code, errSlot[t])
         obj == ObjectFromRaw(cur[t].self, cur[t].out1)
         rev == RevspecFromObjects(obj, NoObject)
     IN IF ~r.ok
        THEN /\ Returned(t, [BaseResult(t) EXCEPT !.kind = "Err", !.err = r.err])
             /\ pc' = [pc EXCEPT ![t] = "idle"]
             /\ cur' = [cur EXCEPT ![t] = NoCall]
             /\ revspecs' = revspecs
        ELSE IF "SINGLE" \in cur[t].flags
        THEN /\ Returned(t, [BaseResult(t) EXCEPT !.kind = "Ok", !.hasRev = TRUE,
                                                  !.from = rev.from, !.to = rev.to])
             /\ pc' = [pc EXCEPT ![t] = "idle"]
             /\ cur' = [cur EXCEPT ![t] = NoCall]
             /\ revspecs' = revspecs \cup { [from |-> rev.from, to |-> rev.to, thr |-> t] }
        ELSE /\ Panic(t, BaseResult(t))
             /\ revspecs' = revspecs
  /\ UNCHANGED <<calls, once, setupRuns, fs, repoInfo, repoFrees, objInfo, objFrees,
                 errSlot, repos, objects>>

\* try!(doit(..)); if flags.contains(SINGLE) { assert!(to.is_null());
\* Ok(Revspec::from_objects(Some(Object::from_raw(self, from)), None)) }
\* else { fail!() }
RevparseReturn(t) ==
  /\ pc[t] = "ret"
  /\ cur[t].op = "revparse"
  /\ LET r == doit(cur[t].code, errSlot[t])
         obj == ObjectFromRaw(cur[t].self, cur[t].out1)
         rev == RevspecFromObjects(obj, NoObject)
     IN IF ~r.ok
        THEN /\ Returned(t, [BaseResult(t) EXCEPT !.kind = "Err", !.err = r.err])
             /\ pc' = [pc EXCEPT ![t] = "idle"]
             /\ cur' = [cur EXCEPT ![t] = NoCall]
             /\ revspecs' = revspecs
        ELSE IF "SINGLE" \in cur[t].flags
        THEN IF cur[t].out2 # 0
             THEN /\ Panic(t, BaseResult(t))
                  /\ revspecs' = revspecs
             ELSE /\ Returned(t, [BaseResult(t) EXCEPT !.kind = "Ok", !.hasRev = TRUE,
                                                       !.from = rev.from, !.to = rev.to])
                  /\ pc' = [pc EXCEPT ![t] = "idle"]
                  /\ cur' = [cur EXCEPT ![t] = NoCall]
                  /\ revspecs' = revspecs \cup { [from |-> rev.from, to |-> rev.to, thr |-> t] }
        ELSE /\ Panic(t, BaseResult(t))
             /\ revspecs' = revspecs
  /\ UNCHANGED <<calls, once, setupRuns, fs, repoInfo, repoFrees, objInfo, objFrees,
                 errSlot, repos, objects>>

\* --------------------------------------------- Repository::revparse_single
\* let s = spec.to_c_str(); git_revparse_single(&mut obj, self.raw, s): on
\* success a new object or, against the engine's contract, null.
RevparseSingle(t, h, s) ==
  /\ Begin(t)
  /\ h \in repos
  /\ h.thr = t
  /\ \/ /\ HasNul(s)
        /\ Panic(t, [NoResult EXCEPT !.op = "revparse_single", !.self = h.raw])
        /\ UNCHANGED <<objInfo, errSlot>>
     \/ /\ ~HasNul(s)
        /\ \E code \in {-3, 0}, null \in BOOLEAN :
             /\ code < 0 => null
             /\ Len(objInfo) + (IF null THEN 0 ELSE 1) <= MaxObjs
             /\ objInfo' = IF null THEN objInfo ELSE Append(objInfo, [repo |-> h.raw])
             /\ cur' = [cur EXCEPT ![t] =
                          [NoCall EXCEPT !.op = "revparse_single", !.self = h.raw,
                                         !.code = code,
                                         !.out1 = IF null THEN 0 ELSE Len(objInfo) + 1]]
             /\ SetError(t, "revparse_single", code)
        /\ pc' = [pc EXCEPT ![t] = "ret"]
        /\ UNCHANGED result
  /\ UNCHANGED <<once, setupRuns, fs, repoInfo, repoFrees, objFrees, repos,
                 objects, revspecs>>

\* RevparseSingleReturn handing out an Object that borrows no Repository.
RevparseSingleReturnDetached(t) ==
  /\ pc[t] = "ret"
  /\ cur[t].op = "revparse_single"
  /\ LET r == doit(cur[t].code, errSlot[t])
         obj == ObjectFromRaw(0, cur[t].out1)
     IN IF ~r.ok
        THEN /\ Returned(t, [BaseResult(t) EXCEPT !.kind = "Err", !.err = r.err])
             /\ pc' = [pc EXCEPT ![t] = "idle"]
             /\ cur' = [cur EXCEPT ![t] = NoCall]
             /\ objects' = objects
        ELSE IF cur[t].out1 = 0
        THEN /\ Panic(t, BaseResult(t))
             /\ objects' = objects
        ELSE /\ Returned(t, [BaseResult(t) EXCEPT !.kind = "Ok", !.obj = obj])
             /\ pc' = [pc EXCEPT ![t] = "idle"]
             /\ cur' = [cur EXCEPT ![t] = NoCall]
             /\ objects' = objects \cup { [raw |-> obj.raw, borrow |-> obj.borrow, thr |-> t] }
  /\ UNCHANGED <<calls, once, setupRuns, fs, repoInfo, repoFrees, objInfo, objFrees,
                 errSlot, repos, revspecs>>

\* try!(doit(..)); assert!(!obj.is_null()); Ok(Object::from_raw(self, obj))
RevparseSingleReturn(t) ==
  /\ pc[t] = "ret"
  /\ cur[t].op = "revparse_single"
  /\ LET r == doit(cur[t].code, errSlot[t])
         obj == ObjectFromRaw(cur[t].self, cur[t].out1)
     IN IF ~r.ok
        THEN /\ Returned(t, [BaseResult(t) EXCEPT !.kind = "Err", !.err = r.err])
             /\ pc' = [pc EXCEPT ![t] = "idle"]
             /\ cur' = [cur EXCEPT ![t] = NoCall]
             /\ objects' = objects
        ELSE IF cur[t].out1 = 0
        THEN /\ Panic(t, BaseResult(t))
             /\ objects' = objects
        ELSE /\ Returned(t, [BaseResult(t) EXCEPT !.kind = "Ok", !.obj = obj])
             /\ pc' = [pc EXCEPT ![t] = "idle"]
             /\ cur' = [cur EXCEPT ![t] = NoCall]
             /\ objects' = objects \cup { [raw |-> obj.raw, borrow |-> obj.borrow, thr |-> t] }
  /\ UNCHANGED <<calls, once, setupRuns, fs, repoInfo, repoFrees, objInfo, objFrees,
                 errSlot, repos, revspecs>>

\* ----------------------------------------------------- Repository::is_bare
\* git_repository_is_bare(self.raw) == 1
IsBare(t, h) ==
  /\ Begin(t)
  /\ h \in repos
  /\ h.thr = t
  /\ LET n == IF repoInfo[h.raw].bare THEN 1 ELSE 0
     IN Returned(t, [NoResult EXCEPT !.op = "is_bare", !.kind = "Ok", !.called = TRUE,
                                     !.native = n, !.self = h.raw, !.flag = (n = 1)])
  /\ UNCHANGED <<once, setupRuns, fs, repoInfo, repoFrees, objInfo, objFrees,
                 errSlot, repos, objects, revspecs, pc, cur>>

\* ---------------------------------------------------- Repository::is_empty
\* IsEmpty whose closure makes a second native call after the first: the
\* second call fails too and records its own error.
IsEmptyThenProbe(t, h) ==
  /\ Begin(t)
  /\ h \in repos
  /\ h.thr = t
  /\ \E code \in {-1, 0, 1} :
       /\ cur' = [cur EXCEPT ![t] = [NoCall EXCEPT !.op = "is_empty", !.self = h.raw,
                                                   !.code = code]]
       /\ errSlot' = [errSlot EXCEPT ![t] = [op |-> "probe", code |-> -3]]
  /\ pc' = [pc EXCEPT ![t] = "ret"]
  /\ UNCHANGED <<once, setupRuns, fs, repoInfo, repoFrees, objInfo, objFrees,
                 repos, objects, revspecs, result>>

\* git_repository_is_empty(self.raw): 1, 0 or a negative status.
IsEmpty(t, h) ==
  /\ Begin(t)
  /\ h \in repos
  /\ h.thr = t
  /\ \E code \in {-1, 0, 1} :
       /\ cur' = [cur EXCEPT ![t] = [NoCall EXCEPT !.op = "is_empty", !.self = h.raw,
                                                   !.code = code]]
       /\ SetError(t, "is_empty", code)
  /\ pc' = [pc EXCEPT ![t] = "ret"]
  /\ UNCHANGED <<once, setupRuns, fs, repoInfo, repoFrees, objInfo, objFrees,
                 repos, objects, revspecs, result>>

\* let empty = try!(doit(..)); Ok(empty == 1)
IsEmptyReturn(t) ==
  /\ pc[t] = "ret"
  /\ cur[t].op = "is_empty"
  /\ LET r == doit(cur[t].code, errSlot[t])
     IN IF r.ok
        THEN Returned(t, [BaseResult(t) EXCEPT !.kind = "Ok", !.flag = (r.n = 1)])
        ELSE Returned(t, [BaseResult(t) EXCEPT !.kind = "Err", !.err = r.err])
  /\ pc' = [pc EXCEPT ![t] = "idle"]
  /\ cur' = [cur EXCEPT ![t] = NoCall]
  /\ UNCHANGED <<calls, once, setupRuns, fs, repoInfo, repoFrees, objInfo, objFrees,
                 errSlot, repos, objects, revspecs>>

\* ------------------------------------------------------- Repository::state
\* A table with a default: an integer it does not know decodes as Clean.
stateDefaulting(n) ==
  IF n \in GIT_REPOSITORY_STATE_MERGE..GIT_REPOSITORY_STATE_APPLY_MAILBOX_OR_REBASE
  THEN <<"Merge", "Revert", "CherryPick", "Bisect", "Rebase", "RebaseInteractive",
         "RebaseMerge", "ApplyMailbox", "ApplyMailboxOrRebase">>[n]
  ELSE "Clean"

\* The check! table: the first raw state equal to the integer gives the
\* variant; no match fails the task.
state(n) ==
  IF n = GIT_REPOSITORY_STATE_NONE THEN "Clean"
  ELSE IF n = GIT_REPOSITORY_STATE_MERGE THEN "Merge"
  ELSE IF n = GIT_REPOSITORY_STATE_REVERT THEN "Revert"
  ELSE IF n = GIT_REPOSITORY_STATE_CHERRYPICK THEN "CherryPick"
  ELSE IF n = GIT_REPOSITORY_STATE_BISECT THEN "Bisect"
  ELSE IF n = GIT_REPOSITORY_STATE_REBASE THEN "Rebase"
  ELSE IF n = GIT_REPOSITORY_STATE_REBASE_INTERACTIVE THEN "RebaseInteractive"
  ELSE IF n = GIT_REPOSITORY_STATE_REBASE_MERGE THEN "RebaseMerge"
  ELSE IF n = GIT_REPOSITORY_STATE_APPLY_MAILBOX THEN "ApplyMailbox"
  ELSE IF n = GIT_REPOSITORY_STATE_APPLY_MAILBOX_OR_REBASE THEN "ApplyMailboxOrRebase"
  ELSE "fail"

\* let state = git_repository_state(self.raw); check!(..)
State(t, h) ==
  /\ Begin(t)
  /\ h \in repos
  /\ h.thr = t
  /\ \E n \in NativeStates :
       LET r == [NoResult EXCEPT !.op = "state", !.called = TRUE, !.native = n,
                                 !.self = h.raw]
       IN IF state(n) = "fail"
          THEN Panic(t, r)
          ELSE /\ Returned(t, [r EXCEPT !.kind = "Ok", !.variant = state(n)])
               /\ UNCHANGED <<pc, cur>>
  /\ UNCHANGED <<once, setupRuns, fs, repoInfo, repoFrees, objInfo, objFrees,
                 errSlot, repos, objects, revspecs>>

\* ---------------------------------------------------------- Drop for Object
\* git_object_free(self.raw), when the Object leaves its scope.
DropObject(t, o) ==
  /\ pc[t] \in {"idle", "failed"}
  /\ o \in objects
  /\ o.thr = t
  /\ objects' = objects \ {o}
  /\ objFrees' = [objFrees EXCEPT ![o.raw] = @ + 1]
  /\ UNCHANGED <<calls, once, setupRuns, fs, repoInfo, repoFrees, objInfo, errSlot,
                 repos, revspecs, pc, cur, result>>

\* Dropping a Revspec drops the Objects it owns.
DropRevspec(t, r) ==
  /\ pc[t] \in {"idle", "failed"}
  /\ r \in revspecs
  /\ r.thr = t
  /\ revspecs' = revspecs \ {r}
  /\ objFrees' = [p \in 0..MaxObjs |->
                    objFrees[p] + (IF p # 0 /\ p = r.from.raw THEN 1 ELSE 0)
                                + (IF p # 0 /\ p = r.to.raw THEN 1 ELSE 0)]
  /\ UNCHANGED <<calls, once, setupRuns, fs, repoInfo, repoFrees, objInfo, errSlot,
                 repos, objects, pc, cur, result>>

\* ------------------------------------------------------ Drop for Repository
\* A Repository without its Drop: the value goes, the native resource stays.
DropRepositoryLeak(t, h) ==
  /\ pc[t] \in {"idle", "failed"}
  /\ h \in repos
  /\ h.thr = t
  /\ ~Borrowed(h.raw)
  /\ repos' = repos \ {h}
  /\ UNCHANGED <<calls, once, setupRuns, fs, repoInfo, repoFrees, objInfo, objFrees,
                 errSlot, objects, revspecs, pc, cur, result>>

\* git_repository_free(self.raw), when the value leaves its scope: on the
\* owner's thread, between calls or while the failed task unwinds.
DropRepository(t, h) ==
  /\ pc[t] \in {"idle", "failed"}
  /\ h \in repos
  /\ h.thr = t
  /\ ~Borrowed(h.raw)
  /\ repos' = repos \ {h}
  /\ repoFrees' = [repoFrees EXCEPT ![h.raw] = @ + 1]
  /\ UNCHANGED <<calls, once, setupRuns, fs, repoInfo, objInfo, objFrees, errSlot,
                 objects, revspecs, pc, cur, result>>

Next ==
  \/ \E t \in Threads, d \in Dirs : Open(t, d)
  \/ \E t \in Threads : Setup(t)
  \/ \E t \in Threads : OpenNative(t)
  \/ \E t \in Threads : OpenReturn(t)
  \/ \E t \in Threads, d \in Dirs, bare \in BOOLEAN : RepoInit(t, d, bare)
  \/ \E t \in Threads : InitNative(t)
  \/ \E t \in Threads : InitReturn(t)
  \/ \E t \in Threads, h \in repos, s \in SpecStrings : Revparse(t, h, s)
  \/ \E t \in Threads : RevparseReturn(t)
  \/ \E t \in Threads, h \in repos, s \in SpecStrings : RevparseSingle(t, h, s)
  \/ \E t \in Threads : RevparseSingleReturn(t)
  \/ \E t \in Threads, h \in repos : IsBare(t, h)
  \/ \E t \in Threads, h \in repos : IsEmpty(t, h)
  \/ \E t \in Threads : IsEmptyReturn(t)
  \/ \E t \in Threads, h \in repos : State(t, h)
  \/ \E t \in Threads, h \in repos : DropRepository(t, h)
  \/ \E t \in Threads, o \in objects : DropObject(t, o)
  \/ \E t \in Threads, r \in revspecs : DropRevspec(t, r)

Spec == Init /\ [][Next]_vars

\* ================================================================= claims
WrappedOps == {"open", "init", "is_empty", "revparse", "revparse_single"}

\* A native repository / object whose pointer a call still holds in a local.
RepoInFlight(p) ==
  \E t \in Threads : pc[t] = "ret" /\ cur[t].op \in {"open", "init"} /\ cur[t].out1 = p
ObjInFlight(q) ==
  \E t \in Threads : /\ pc[t] = "ret"
                     /\ cur[t].op \in {"revparse", "revparse_single"}
                     /\ q \in {cur[t].out1, cur[t].out2}

\* The number of Object values that own native object q.
Owners(q) ==
  Cardinality({ o \in objects : o.raw = q })
  + Cardinality({ r \in revspecs : r.from.raw = q })
  + Cardinality({ r \in revspecs : r.to.raw = q })

\* C1: the native repository of every Repository that open / init returned is
\* freed exactly once, when that Repository is dropped: while the Repository
\* lives it is its only owner and unfreed, once it is gone it has been freed
\* once; and git_repository_free never runs on the null pointer that a failed
\* open / init leaves in ret.
RepositoryReleasedExactlyOnce ==
  /\ repoFrees[0] = 0
  /\ \A h \in repos : h.raw \in 1..Len(repoInfo)
  /\ \A p \in 1..Len(repoInfo) :
       LET owners == { h \in repos : h.raw = p }
       IN IF RepoInFlight(p)
          THEN owners = {} /\ repoFrees[p] = 0
          ELSE \/ Cardinality(owners) = 1 /\ repoFrees[p] = 0
               \/ owners = {} /\ repoFrees[p] = 1

\* An open failed on some thread, and a Repository of a later call was dropped.
RepositoryReleasedWitness ==
  /\ \E t \in Threads : errSlot[t].op = "open"
  /\ \E p \in 1..Len(repoInfo) : repoFrees[p] = 1

\* C2: no Object, held directly or as the leg of a Revspec, is alive once the
\* native repository it was made from has been freed.
ObjectNeverOutlivesRepository ==
  \A o \in HeldObjects :
    /\ o.raw \in 1..Len(objInfo)
    /\ repoFrees[objInfo[o.raw].repo] = 0

\* A repository gave an Object (the leg of a Revspec), the Object was dropped
\* and then the repository.
ObjectDroppedFirstWitness ==
  \E q \in 1..Len(objInfo) :
    /\ objFrees[q] = 1
    /\ repoFrees[objInfo[q].repo] = 1
    /\ result.hasRev

\* C3: from the native call that returned a negative status to the read of the
\* last-error slot the thread's slot holds that call's error, and the Error a
\* caller gets names the call that failed and its status.
ErrorCarriesFailedCall ==
  /\ \A t \in Threads :
       pc[t] = "ret" /\ cur[t].code < 0 =>
         errSlot[t] = [op |-> cur[t].op, code |-> cur[t].code]
  /\ result.op \in WrappedOps /\ result.kind = "Err" =>
       result.err = [op |-> result.op, code |-> result.native]

\* is_empty failed on a thread whose slot held the error of an earlier call,
\* while the other thread's slot holds an error of its own.
ErrorCarriesWitness ==
  /\ result.op = "is_empty"
  /\ result.kind = "Err"
  /\ \E u \in Threads : u # result.thr /\ errSlot[u] \notin {NoErr, result.err}

\* C4: the native global setup runs at most once, and no native open / init
\* call starts, or has been made, before it has run and completed.
SetupOnceBeforeNative ==
  /\ setupRuns <= 1
  /\ once = "done" <=> setupRuns = 1
  /\ \A t \in Threads :
       \/ pc[t] = "native"
       \/ pc[t] = "ret" /\ cur[t].op \in {"open", "init"}
       => once = "done"
  /\ Len(repoInfo) > 0 => once = "done"

\* Both threads are past the Once at the same time, one setup behind them.
SetupOnceWitness ==
  /\ setupRuns = 1
  /\ \A t \in Threads : pc[t] = "native"

\* C5: a wrapped call returns Err exactly when its native call returned a
\* negative status; the Err carries that status and no Repository, Object or
\* Revspec comes with it; open and init never fail the task; and no Repository
\* or Object wraps a pointer the engine did not hand out.
ErrIffNativeNegative ==
  /\ result.op \in WrappedOps /\ result.called =>
       /\ result.kind = "Err" <=> result.native < 0
       /\ result.kind = "Err" =>
            /\ result.err.code = result.native
            /\ result.repo = 0
            /\ result.obj = NoObject
            /\ ~result.hasRev
  /\ result.op \in {"open", "init"} => result.kind \in {"Ok", "Err"}
  /\ \A h \in repos : h.raw \in 1..Len(repoInfo)
  /\ \A o \in HeldObjects : o.raw \in 1..Len(objInfo)

\* open on a path that holds no repository returned Err.
ErrIffWitness ==
  /\ result.op = "open"
  /\ result.kind = "Err"
  /\ result.native = -3
  /\ repos = {}

\* C6: when git_revparse succeeds and the flags do not contain SINGLE, revparse
\* returns an error result (UnsupportedRevspec) to its caller.
UnsupportedRevspecReturned ==
  result.op = "revparse" /\ result.called /\ result.native >= 0
    /\ "SINGLE" \notin result.flags
  => result.kind = "Err"

\* C7: every Revspec that revparse returned has from present and to absent;
\* when the engine reports SINGLE with its second slot set revparse fails the
\* task and returns no Revspec, and when the slot is unset it returns the
\* Revspec of the engine's first object.
SingleRevspecHasNoTo ==
  /\ \A r \in revspecs : r.from # NoObject /\ r.to = NoObject
  /\ result.op = "revparse" /\ result.called /\ result.native >= 0
       /\ "SINGLE" \in result.flags
     => IF result.nto # 0
        THEN result.kind = "Panic" /\ ~result.hasRev
        ELSE /\ result.kind = "Ok"
             /\ result.hasRev
             /\ result.from.raw = result.nfrom
             /\ result.from # NoObject
             /\ result.to = NoObject

\* revparse returned a Revspec for a single expression.
SingleRevspecWitness ==
  /\ result.op = "revparse"
  /\ result.kind = "Ok"
  /\ result.hasRev
  /\ \E r \in revspecs : r.from = result.from

\* C8: state gives NONE Clean, MERGE Merge, REVERT Revert, CHERRYPICK
\* CherryPick, BISECT Bisect, REBASE Rebase, REBASE_INTERACTIVE
\* RebaseInteractive, REBASE_MERGE RebaseMerge, APPLY_MAILBOX ApplyMailbox and
\* APPLY_MAILBOX_OR_REBASE ApplyMailboxOrRebase, ten distinct variants, and
\* fails the task, returning no variant, for every other integer.
StateDecodesEachInteger ==
  result.op = "state" =>
    LET n == result.native
        table == <<"Clean", "Merge", "Revert", "CherryPick", "Bisect", "Rebase",
                   "RebaseInteractive", "RebaseMerge", "ApplyMailbox",
                   "ApplyMailboxOrRebase">>
    IN /\ \A i, j \in 1..Len(table) : table[i] = table[j] => i = j
       /\ IF n \in 0..9
          THEN result.kind = "Ok" /\ result.variant = table[n + 1]
          ELSE result.kind = "Panic" /\ result.variant = "none"

\* state decoded the engine's REBASE_MERGE.
StateDecodesWitness ==
  /\ result.op = "state"
  /\ result.native = 7
  /\ result.variant = "RebaseMerge"

OtherLayout(dirState, b) == IF b THEN dirState.dotgit ELSE dirState.bare

EveryParsedObjectOwnedOnce ==
  \A q \in 1..Len(objInfo) :
    ~ObjInFlight(q) =>
      \/ Owners(q) = 1 /\ objFrees[q] = 0
      \/ Owners(q) = 0 /\ objFrees[q] = 1
====
